---- MODULE Spec2Model ----
(***************************************************************************)
(* Location Request Service (src/app.py): a Flask application whose four   *)
(* handlers share the in-memory dictionary REQUEST_DB and the directory    *)
(* RESULTS_DIR.  Handlers run on a pool of worker threads; a step of the   *)
(* model is one access of a handler to the shared dictionary or to the     *)
(* file system, so that handlers interleave where the threads can.         *)
(*                                                                         *)
(* Line 6 of the source imports "xml.et.ree.ElementTree"; the model takes  *)
(* ET to be the standard library's xml.etree.ElementTree.                  *)
(***************************************************************************)
EXTENDS Integers, Sequences, FiniteSets, TLC

\* ------------------------------------------------------------------ bounds
NumWorkers == 2      \* handler threads of the server
MaxTokens  == 2      \* request identifiers uuid4 hands out
MaxCalls   == 3      \* HTTP requests served in one behaviour

Workers == 1..NumWorkers
Tokens  == {"t" \o ToString(i) : i \in 1..MaxTokens}

\* ------------------------------------------------------------------ inputs
\* JSON null, a missing key and the empty string: the handlers only test
\* these values for truthiness, where the three agree.
None == ""
\* A well-formed identifier that uuid4 never generated.
Bogus == "t0"
\* `location` of the request body: null, or an object with lat and lon.
NoLocation == << >>
Locations == {NoLocation, << [lat |-> 37, lon |-> -122] >>}
Errors == {None, "Request timed out."}
Phones == {None, "+15551234567"}

VARIABLES
    twilio_client,   \* TRUE when Client(...) was constructed
    REQUEST_DB,      \* request_id -> status
    files,           \* RESULTS_DIR: request_id -> content of <request_id>.xml
    used,            \* identifiers uuid4 has returned so far
    th,              \* per worker: the handler it runs, its position and locals
    calls,           \* requests started so far
    hist             \* history of what the handlers did (never read by them)

vars == << twilio_client, REQUEST_DB, files, used, th, calls, hist >>

\* ------------------------------------------------------------- Result Codec
\* ET's escaping of element text.
RECURSIVE escape_cdata(_)
escape_cdata(s) ==
    IF s = "" THEN ""
    ELSE LET c == SubSeq(s, 1, 1) IN
         (CASE c = "&" -> "&amp;"
            [] c = "<" -> "&lt;"
            [] c = ">" -> "&gt;"
            [] OTHER   -> c) \o escape_cdata(SubSeq(s, 2, Len(s)))

Element(tag, text) == "<" \o tag \o ">" \o text \o "</" \o tag \o ">"

PendingMessage == "Location has not been provided by the user yet."

MessageFor(status, error_msg) ==
    IF status = "denied" /\ error_msg # None THEN Element("Message", escape_cdata(error_msg))
    ELSE IF status = "pending" THEN Element("Message", escape_cdata(PendingMessage))
    ELSE ""

generate_xml_response(request_id, status, location, error_msg) ==
    Element("LocationRequest",
        Element("RequestID", escape_cdata(request_id))
        \o Element("Status", escape_cdata(status))
        \o (IF status = "completed" /\ location # NoLocation
            THEN Element("Coordinates",
                     Element("Latitude", ToString(location[1].lat))
                     \o Element("Longitude", ToString(location[1].lon)))
            ELSE MessageFor(status, error_msg)))

\* ------------------------------------------------------------- file system
\* open(filepath, "w"): the file is created, or truncated to length 0.
OpenForWrite(fs, name) ==
    [n \in DOMAIN fs \cup {name} |-> IF n = name THEN "" ELSE fs[n]]

\* The buffered data reaches the file when it is closed: one write at
\* offset 0 of the descriptor, over whatever the file holds by then.
WriteAtZero(old, data) == data \o SubSeq(old, Len(data) + 1, Len(old))

FlushAndClose(fs, name, data) ==
    [fs EXCEPT ![name] = WriteAtZero(fs[name], data)]

\* ------------------------------------------------------------ Status Store
\* Line 74 left out.
Insert_Forgotten(db, request_id) == db

Insert(db, request_id) ==
    [t \in DOMAIN db \cup {request_id} |-> IF t = request_id THEN "pending" ELSE db[t]]

\* The except block without its del.
Rollback_Forgotten(db, request_id) == db

\* The except block clearing the dictionary instead of deleting one key.
Rollback_ClearsStore(db, request_id) == [t \in {} |-> "pending"]

Rollback(db, request_id) ==
    [t \in DOMAIN db \ {request_id} |-> db[t]]

\* Line 179 without the membership test.
TokenInvalid_NoLookup(db, request_id) == request_id = None

TokenInvalid(db, request_id) ==
    request_id = None \/ request_id \notin DOMAIN db

\* Line 181 comparing against a status no entry ever has.
AlreadyProcessed_WrongLiteral(db, request_id) == db[request_id] = "processed"

\* Line 107 taking only completed for processed.
AlreadyProcessed_OnlyCompleted(db, request_id) == db[request_id] = "completed"

AlreadyProcessed(db, request_id) == db[request_id] # "pending"

\* Line 70 letting every phone number through.
PhoneMissing_Never(phone_number) == FALSE

PhoneMissing(phone_number) == phone_number = None

\* Line 210 taking an empty file for a missing one.
FileExists_NonEmpty(fs, request_id) ==
    request_id \in DOMAIN fs /\ fs[request_id] # ""

\* os.path.exists(filepath).
FileExists(fs, request_id) == request_id \in DOMAIN fs

SubmitStatus(location) == IF location # NoLocation THEN "completed" ELSE "denied"

\* ---------------------------------------------------------------- workers
NoResp == [code |-> 0, body |-> ""]

Idle == [op |-> "none", pc |-> "idle", request_id |-> None, phone_number |-> None,
         location |-> NoLocation,
         error |-> None, xml_data |-> "", resp |-> NoResp, line |-> 0, io |-> "none",
         after |-> FALSE]

\* A request goes to the first worker of the pool that is not serving one.
Available(w) == th[w].pc \in {"idle", "done"}

Free(w) ==
    /\ Available(w)
    /\ \A v \in Workers : v < w => ~Available(v)
    /\ calls < MaxCalls

Begin(w, op, pc, request_id) ==
    [Idle EXCEPT !.op = op, !.pc = pc, !.request_id = request_id]

\* The handler returns (or raises) at source line `line`.
Respond(r, code, body, line) ==
    [r EXCEPT !.pc = "done", !.resp = [code |-> code, body |-> body], !.line = line]

\* An exception no handler catches: Flask answers 500.
Raise(r, line) == Respond(r, 500, "Internal Server Error", line)

\* Identifiers a client can send: the ones handed out, a made-up one, none.
Sendable == used \cup {Bogus, None}

\* uuid4(): an identifier never returned before.
NextToken == "t" \o ToString(Cardinality(used) + 1)

NoHist == [trans |-> 0, opens |-> 0, writes |-> 0, payloads |-> {}, codes |-> {},
           created |-> FALSE, rolledBack |-> FALSE, ioFailed |-> FALSE]

\* hist with the entry of request_id replaced by h (made-up identifiers have none).
Note(request_id, h) ==
    IF request_id \in Tokens THEN [hist EXCEPT ![request_id] = h] ELSE hist

H(request_id) == IF request_id \in Tokens THEN hist[request_id] ELSE NoHist

\* A submit handler answers with `code`.
NoteCode(request_id, code) ==
    Note(request_id, [H(request_id) EXCEPT !.codes = @ \cup {code}])

Init ==
    /\ twilio_client \in BOOLEAN
    /\ REQUEST_DB = [t \in {} |-> "pending"]
    /\ files = [t \in {} |-> ""]
    /\ used = {}
    /\ th = [w \in Workers |-> Idle]
    /\ calls = 0
    /\ hist = [t \in Tokens |-> NoHist]

\* ------------------------------------------------- POST /request-location
ReqStart(w, phone_number) ==
    /\ Free(w)
    /\ calls' = calls + 1
    /\ LET r == [Begin(w, "request_location", "req_send", None)
                    EXCEPT !.phone_number = phone_number] IN
       IF ~twilio_client
       THEN /\ th' = [th EXCEPT ![w] = Respond(r, 500, "Twilio client not initialized", 66)]
            /\ UNCHANGED << REQUEST_DB, used >>
       ELSE IF PhoneMissing(phone_number)
       THEN /\ th' = [th EXCEPT ![w] = Respond(r, 400, "'phone_number' is required", 71)]
            /\ UNCHANGED << REQUEST_DB, used >>
       ELSE /\ NextToken \in Tokens
            /\ used' = used \cup {NextToken}
            /\ REQUEST_DB' = Insert(REQUEST_DB, NextToken)
            /\ th' = [th EXCEPT ![w] = [r EXCEPT !.request_id = NextToken, !.line = 74]]
    /\ UNCHANGED << twilio_client, files, hist >>

\* twilio_client.messages.create(...) returns.
ReqSendOk(w) ==
    /\ th[w].pc = "req_send"
    /\ th' = [th EXCEPT ![w] = Respond(@, 202, "pending", 95)]
    /\ hist' = Note(th[w].request_id, [H(th[w].request_id) EXCEPT !.created = TRUE])
    /\ UNCHANGED << twilio_client, REQUEST_DB, files, used, calls >>

\* twilio_client.messages.create(...) raises: the except block.
ReqSendFail(w) ==
    /\ th[w].pc = "req_send"
    /\ REQUEST_DB' = IF th[w].request_id \in DOMAIN REQUEST_DB
                     THEN Rollback(REQUEST_DB, th[w].request_id)
                     ELSE REQUEST_DB
    /\ th' = [th EXCEPT ![w] = Respond(@, 500, "Failed to send SMS", 101)]
    /\ hist' = Note(th[w].request_id, [H(th[w].request_id) EXCEPT !.rolledBack = TRUE])
    /\ UNCHANGED << twilio_client, files, used, calls >>

\* ------------------------------------------------ GET /consent/<request_id>
ConStart(w, request_id) ==
    /\ Free(w)
    /\ request_id \in Sendable \ {None}
    /\ calls' = calls + 1
    /\ LET r == Begin(w, "get_consent", "con_status", request_id) IN
       th' = [th EXCEPT ![w] =
                IF request_id \notin DOMAIN REQUEST_DB
                THEN Respond(r, 404, "Invalid or expired request.", 106)
                ELSE r]
    /\ UNCHANGED << twilio_client, REQUEST_DB, files, used, hist >>

ConStatus(w) ==
    /\ th[w].pc = "con_status"
    /\ th' = [th EXCEPT ![w] =
                IF th[w].request_id \notin DOMAIN REQUEST_DB
                THEN Raise(@, 107)
                ELSE IF AlreadyProcessed(REQUEST_DB, th[w].request_id)
                THEN Respond(@, 200, "This location request has already been completed.", 108)
                ELSE Respond(@, 200, "consent page " \o th[w].request_id, 170)]
    /\ UNCHANGED << twilio_client, REQUEST_DB, files, used, calls, hist >>

\* ------------------------------------------------- POST /submit-location
SubStart(w, request_id, location, error) ==
    /\ Free(w)
    /\ request_id \in Sendable
    /\ calls' = calls + 1
    /\ LET r == [Begin(w, "submit_location", "sub_status", request_id)
                    EXCEPT !.location = location, !.error = error,
                           !.after = 200 \in H(request_id).codes] IN
       IF TokenInvalid(REQUEST_DB, request_id)
       THEN /\ th' = [th EXCEPT ![w] = Respond(r, 400, "Invalid token", 180)]
            /\ hist' = NoteCode(request_id, 400)
       ELSE /\ th' = [th EXCEPT ![w] = r]
            /\ hist' = hist
    /\ UNCHANGED << twilio_client, REQUEST_DB, files, used >>

SubStatus(w) ==
    /\ th[w].pc = "sub_status"
    /\ IF th[w].request_id \notin DOMAIN REQUEST_DB
       THEN /\ th' = [th EXCEPT ![w] = Raise(@, 181)]
            /\ hist' = NoteCode(th[w].request_id, 500)
       ELSE IF AlreadyProcessed(REQUEST_DB, th[w].request_id)
       THEN /\ th' = [th EXCEPT ![w] = Respond(@, 200, "Request already processed", 182)]
            /\ hist' = NoteCode(th[w].request_id, 200)
       ELSE /\ th' = [th EXCEPT ![w].pc = "sub_set"]
            /\ hist' = hist
    /\ UNCHANGED << twilio_client, REQUEST_DB, files, used, calls >>

\* Lines 184-193: the document is built, then the status is stored.
SubSet(w) ==
    /\ th[w].pc = "sub_set"
    /\ LET t == th[w].request_id
           status == SubmitStatus(th[w].location)
           xml_data == generate_xml_response(t, status, th[w].location, th[w].error)
       IN IF t \notin DOMAIN REQUEST_DB
          THEN /\ th' = [th EXCEPT ![w] = Raise([@ EXCEPT !.xml_data = xml_data],
                                                IF status = "completed" THEN 187 ELSE 192)]
               /\ hist' = NoteCode(t, 500)
               /\ UNCHANGED REQUEST_DB
          ELSE /\ REQUEST_DB' = [REQUEST_DB EXCEPT ![t] = status]
               /\ th' = [th EXCEPT ![w].pc = "sub_open", ![w].xml_data = xml_data]
               /\ hist' = Note(t, [H(t) EXCEPT !.trans = @ + 1,
                                     !.payloads = @ \cup {<< th[w].location, th[w].error >>}])
    /\ UNCHANGED << twilio_client, files, used, calls >>

\* Lines 198-199: os.makedirs and open(filepath, "w") succeed.
SubOpenOk(w) ==
    /\ th[w].pc = "sub_open"
    /\ files' = OpenForWrite(files, th[w].request_id)
    /\ th' = [th EXCEPT ![w].pc = "sub_write"]
    /\ hist' = Note(th[w].request_id, [H(th[w].request_id) EXCEPT !.opens = @ + 1])
    /\ UNCHANGED << twilio_client, REQUEST_DB, used, calls >>

\* os.makedirs or open raises: logged, and the handler returns "received".
SubOpenFail(w) ==
    /\ th[w].pc = "sub_open"
    /\ th' = [th EXCEPT ![w] = Respond([@ EXCEPT !.io = "open_failed"], 200, "received", 205)]
    /\ hist' = Note(th[w].request_id,
                    [H(th[w].request_id) EXCEPT !.ioFailed = TRUE, !.codes = @ \cup {200}])
    /\ UNCHANGED << twilio_client, REQUEST_DB, files, used, calls >>

\* Line 200 and the end of the with block: the data is written and the file closed.
SubWriteOk(w) ==
    /\ th[w].pc = "sub_write"
    /\ files' = FlushAndClose(files, th[w].request_id, th[w].xml_data)
    /\ th' = [th EXCEPT ![w] = Respond([@ EXCEPT !.io = "written"], 200, "received", 205)]
    /\ hist' = Note(th[w].request_id,
                    [H(th[w].request_id) EXCEPT !.writes = @ + 1, !.codes = @ \cup {200}])
    /\ UNCHANGED << twilio_client, REQUEST_DB, used, calls >>

\* The write raises (disk full, I/O error): the file stays as open left it.
SubWriteFail(w) ==
    /\ th[w].pc = "sub_write"
    /\ th' = [th EXCEPT ![w] = Respond([@ EXCEPT !.io = "write_failed"], 200, "received", 205)]
    /\ hist' = Note(th[w].request_id,
                    [H(th[w].request_id) EXCEPT !.ioFailed = TRUE, !.codes = @ \cup {200}])
    /\ UNCHANGED << twilio_client, REQUEST_DB, files, used, calls >>

\* --------------------------------------------- GET /get-location/<request_id>
NotFoundDocument(request_id) ==
    generate_xml_response(request_id, "error", NoLocation, "Request ID not found.")

PendingDocument(request_id) ==
    generate_xml_response(request_id, "pending", NoLocation, None)

\* Line 210: os.path.exists(filepath).
GetStart(w, request_id) ==
    /\ Free(w)
    /\ request_id \in Sendable \ {None}
    /\ calls' = calls + 1
    /\ th' = [th EXCEPT ![w] =
                Begin(w, "get_location_xml",
                      IF FileExists(files, request_id) THEN "get_read" ELSE "get_db",
                      request_id)]
    /\ UNCHANGED << twilio_client, REQUEST_DB, files, used, hist >>

\* The file deleted once it has been served.
GetReadOk_Consumes(w) ==
    /\ th[w].pc = "get_read"
    /\ th' = [th EXCEPT ![w] = Respond(@, 200, files[th[w].request_id], 213)]
    /\ files' = [n \in DOMAIN files \ {th[w].request_id} |-> files[n]]
    /\ UNCHANGED << twilio_client, REQUEST_DB, used, calls, hist >>

GetReadOk(w) ==
    /\ th[w].pc = "get_read"
    /\ th' = [th EXCEPT ![w] = Respond(@, 200, files[th[w].request_id], 213)]
    /\ UNCHANGED << twilio_client, REQUEST_DB, files, used, calls, hist >>

GetReadFail(w) ==
    /\ th[w].pc = "get_read"
    /\ th' = [th EXCEPT ![w] = Respond(@, 500, "Error reading result file", 215)]
    /\ UNCHANGED << twilio_client, REQUEST_DB, files, used, calls, hist >>

\* Line 216, left operand: request_id in REQUEST_DB.
GetDb(w) ==
    /\ th[w].pc = "get_db"
    /\ th' = [th EXCEPT ![w] =
                IF th[w].request_id \in DOMAIN REQUEST_DB
                THEN [@ EXCEPT !.pc = "get_status"]
                ELSE Respond(@, 404, NotFoundDocument(th[w].request_id), 219)]
    /\ UNCHANGED << twilio_client, REQUEST_DB, files, used, calls, hist >>

\* Line 216, right operand: REQUEST_DB[request_id]['status'] == 'pending'.
GetStatus(w) ==
    /\ th[w].pc = "get_status"
    /\ th' = [th EXCEPT ![w] =
                IF th[w].request_id \notin DOMAIN REQUEST_DB
                THEN Raise(@, 216)
                ELSE IF REQUEST_DB[th[w].request_id] = "pending"
                THEN Respond(@, 200, PendingDocument(th[w].request_id), 217)
                ELSE Respond(@, 404, NotFoundDocument(th[w].request_id), 219)]
    /\ UNCHANGED << twilio_client, REQUEST_DB, files, used, calls, hist >>

\* ------------------------------------------------------------ specification
Next ==
    \/ \E w \in Workers, p \in Phones : ReqStart(w, p)
    \/ \E w \in Workers : ReqSendOk(w)
    \/ \E w \in Workers : ReqSendFail(w)
    \/ \E w \in Workers, t \in Sendable : ConStart(w, t)
    \/ \E w \in Workers : ConStatus(w)
    \/ \E w \in Workers, t \in Sendable, l \in Locations, e \in Errors : SubStart(w, t, l, e)
    \/ \E w \in Workers : SubStatus(w)
    \/ \E w \in Workers : SubSet(w)
    \/ \E w \in Workers : SubOpenOk(w)
    \/ \E w \in Workers : SubOpenFail(w)
    \/ \E w \in Workers : SubWriteOk(w)
    \/ \E w \in Workers : SubWriteFail(w)
    \/ \E w \in Workers, t \in Sendable : GetStart(w, t)
    \/ \E w \in Workers : GetReadOk(w)
    \/ \E w \in Workers : GetReadFail(w)
    \/ \E w \in Workers : GetDb(w)
    \/ \E w \in Workers : GetStatus(w)

Spec == Init /\ [][Next]_vars

\* -------------------------------------------------------------- properties
\* Worker w takes the step.
StepOf(w) == th'[w] # th[w]

\* Worker w starts the handler `op` in this step.
Starts(w, op) == StepOf(w) /\ th[w].pc \in {"idle", "done"} /\ th'[w].op = op

\* No submit handler is at work on request_id.
Quiet(request_id) ==
    \A w \in Workers :
        ~(th[w].op = "submit_location" /\ th[w].request_id = request_id /\ th[w].pc # "done")

\* The documents submit_location builds for the payloads that moved request_id
\* out of pending.
SubmittedDocuments(request_id) ==
    { Element("LocationRequest",
          Element("RequestID", request_id)
          \o Element("Status", IF p[1] # NoLocation THEN "completed" ELSE "denied")
          \o (IF p[1] # NoLocation
              THEN Element("Coordinates",
                       Element("Latitude", ToString(p[1][1].lat))
                       \o Element("Longitude", ToString(p[1][1].lon)))
              ELSE IF p[2] # None THEN Element("Message", p[2]) ELSE ""))
      : p \in hist[request_id].payloads }

Contains(s, sub) ==
    \E i \in 1..(Len(s) - Len(sub) + 1) : SubSeq(s, i, i + Len(sub) - 1) = sub

\* C1: a status that is completed or denied is never changed to another status
\* by any later step.
C1_StatusOneWay ==
    [][\A t \in DOMAIN REQUEST_DB :
          (REQUEST_DB[t] # "pending" /\ t \in DOMAIN REQUEST_DB')
              => REQUEST_DB'[t] = REQUEST_DB[t]]_vars

\* C2: for every identifier at most one submit handler performs the status
\* transition and at most one opens and writes the result file.
C2_OneWinner ==
    \A t \in Tokens :
        hist[t].trans <= 1 /\ hist[t].opens <= 1 /\ hist[t].writes <= 1

\* C3: once the file of an identifier holds a document, no step changes its
\* content.
C3_DocumentImmutable ==
    [][\A t \in DOMAIN files :
          files[t] # "" => (t \in DOMAIN files' /\ files'[t] = files[t])]_vars

\* C4: when get_location_xml answers for an identifier the Status Store knows
\* (and reading the file did not fail), the answer is never the 404 document:
\* it is the pending document while the status is pending, a completed document
\* with submitted coordinates when it is completed, a denied document when it
\* is denied.
C4_FetchResult ==
    [][\A w \in Workers :
          (/\ th[w].op = "get_location_xml"
           /\ th[w].pc # "done"
           /\ th'[w].pc = "done"
           /\ th'[w].line # 215
           /\ th[w].request_id \in DOMAIN REQUEST_DB)
          => LET t == th[w].request_id
                 r == th'[w].resp
             IN /\ r.code = 200
                /\ REQUEST_DB[t] = "pending" =>
                       r.body = Element("LocationRequest",
                                    Element("RequestID", t)
                                    \o Element("Status", "pending")
                                    \o Element("Message", PendingMessage))
                /\ REQUEST_DB[t] # "pending" =>
                       /\ r.body \in SubmittedDocuments(t)
                       /\ Contains(r.body, Element("Status", REQUEST_DB[t]))]_vars

\* C5: a submit call that starts after a submit call for the same identifier
\* has returned 200 changes neither the Status Store nor any file; and a
\* submit handler that reads a status other than pending answers 200
\* "Request already processed" in that step, changing neither.
C5_SubmitIdempotent ==
    [][\A w \in Workers :
          /\ (StepOf(w) /\ th'[w].op = "submit_location" /\ th'[w].after)
                => (REQUEST_DB' = REQUEST_DB /\ files' = files)
          /\ (/\ StepOf(w)
              /\ th[w].pc = "sub_status"
              /\ th[w].request_id \in DOMAIN REQUEST_DB
              /\ REQUEST_DB[th[w].request_id] \in {"completed", "denied"})
                => /\ th'[w].pc = "done"
                   /\ th'[w].resp = [code |-> 200, body |-> "Request already processed"]
                   /\ REQUEST_DB' = REQUEST_DB
                   /\ files' = files]_vars

\* C5 witness: a second submit, with a payload of the other kind than the one
\* stored, has been answered "already processed" and the first call's document
\* is in the file.
C5_Witness ==
    \E w \in Workers :
        /\ th[w].op = "submit_location"
        /\ th[w].after
        /\ th[w].pc = "done"
        /\ th[w].resp.body = "Request already processed"
        /\ th[w].request_id \in DOMAIN files
        /\ REQUEST_DB[th[w].request_id] = "completed"
        /\ th[w].location = NoLocation
        /\ Contains(files[th[w].request_id], "<Status>completed</Status>")

\* C6: once all submit calls for an identifier whose request_location returned
\* 202 have finished, none of them with an I/O failure, every one of them was
\* answered 200 and the identifier's file holds one document, the one some
\* call built.
C6_ConcurrentSubmits ==
    \A t \in Tokens :
        (/\ hist[t].created
         /\ hist[t].trans >= 1
         /\ ~hist[t].ioFailed
         /\ Quiet(t))
        => /\ hist[t].codes = {200}
           /\ t \in DOMAIN files
           /\ files[t] \in SubmittedDocuments(t)

\* C7: a submit without location that moves a pending identifier to denied and
\* writes its file (the only write to it) stores a document with a Message
\* element: the error text when one was sent, a placeholder otherwise.
C7_DenialMessage ==
    \A w \in Workers :
        (/\ th[w].op = "submit_location"
         /\ th[w].pc = "done"
         /\ th[w].location = NoLocation
         /\ th[w].io = "written"
         /\ hist[th[w].request_id].opens = 1)
        => LET t == th[w].request_id IN
           /\ Contains(files[t], "<Status>denied</Status>")
           /\ Contains(files[t], "<Message>")
           /\ th[w].error # None => Contains(files[t], Element("Message", th[w].error))

\* C8: a submit call whose token is missing or not in the Status Store is
\* answered 400 "Invalid token" in its first step, and that step changes
\* neither the Status Store nor the files.
C8_InvalidToken ==
    [][\A w \in Workers :
          (/\ Starts(w, "submit_location")
           /\ (th'[w].request_id = None \/ th'[w].request_id \notin DOMAIN REQUEST_DB))
          => /\ th'[w].pc = "done"
             /\ th'[w].resp = [code |-> 400, body |-> "Invalid token"]
             /\ REQUEST_DB' = REQUEST_DB
             /\ files' = files]_vars

\* C8 witness: submits with a made-up token and with no token were answered
\* 400 while the Status Store held an entry and no file existed.
C8_Witness ==
    /\ REQUEST_DB # << >>
    /\ DOMAIN files = {}
    /\ \E w1, w2 \in Workers :
        /\ th[w1].op = "submit_location" /\ th[w1].request_id = Bogus
        /\ th[w1].resp.code = 400
        /\ th[w2].op = "submit_location" /\ th[w2].request_id = None
        /\ th[w2].resp.code = 400

\* C9: request_location adds only its own fresh identifier to the Status
\* Store; when delivery fails it removes exactly that entry and answers 500;
\* a rolled-back identifier never is in the Status Store again, and consent
\* and submit calls that start on it are answered 404 and 400.
C9_DeliveryFailureRollsBack ==
    /\ [](\A t \in Tokens : hist[t].rolledBack => t \notin DOMAIN REQUEST_DB)
    /\ [][\A w \in Workers :
            /\ (Starts(w, "request_location") /\ th'[w].pc # "done")
                 => /\ th'[w].request_id \notin DOMAIN REQUEST_DB
                    /\ DOMAIN REQUEST_DB' = DOMAIN REQUEST_DB \cup {th'[w].request_id}
                    /\ \A u \in DOMAIN REQUEST_DB : REQUEST_DB'[u] = REQUEST_DB[u]
            /\ (StepOf(w) /\ th[w].pc = "req_send" /\ th'[w].resp.code # 202)
                 => /\ th'[w].pc = "done"
                    /\ th'[w].resp.code = 500
                    /\ DOMAIN REQUEST_DB' = DOMAIN REQUEST_DB \ {th[w].request_id}
                    /\ \A u \in DOMAIN REQUEST_DB' : REQUEST_DB'[u] = REQUEST_DB[u]
            /\ (Starts(w, "get_consent") /\ H(th'[w].request_id).rolledBack)
                 => th'[w].resp.code = 404
            /\ (Starts(w, "submit_location") /\ H(th'[w].request_id).rolledBack)
                 => th'[w].resp.code = 400]_vars

\* C9 witness: an identifier was rolled back while the entry of another stayed
\* in the Status Store, and a consent or submit call on the rolled-back
\* identifier has been answered.
C9_Witness ==
    \E t \in Tokens :
        /\ hist[t].rolledBack
        /\ DOMAIN REQUEST_DB # {}
        /\ \E w \in Workers :
            /\ th[w].op \in {"get_consent", "submit_location"}
            /\ th[w].request_id = t
            /\ th[w].pc = "done"

\* C10: a submit handler that alone moved an identifier (one whose
\* request_location returned 202) out of pending is answered 200 "received";
\* when its file write failed, the status is completed or denied and no file
\* exists for the identifier.
C10_AcknowledgedWithoutDocument ==
    \A w \in Workers :
        (/\ th[w].op = "submit_location"
         /\ th[w].pc = "done"
         /\ th[w].line \in {187, 192, 205}
         /\ hist[th[w].request_id].created
         /\ hist[th[w].request_id].trans = 1)
        => LET t == th[w].request_id IN
           /\ th[w].resp = [code |-> 200, body |-> "received"]
           /\ th[w].io \in {"open_failed", "write_failed"}
                => /\ REQUEST_DB[t] \in {"completed", "denied"}
                   /\ t \notin DOMAIN files

\* C11: a consent call on an identifier that is not in the Status Store is
\* answered 404 at once; a consent handler that reads the status answers 200
\* with the "already completed" notice when it is completed or denied, and 200
\* with the consent page carrying the identifier when, and only when, it is
\* pending.
C11_ViewConsent ==
    [][\A w \in Workers :
          /\ (Starts(w, "get_consent") /\ th'[w].request_id \notin DOMAIN REQUEST_DB)
                => (th'[w].pc = "done" /\ th'[w].resp.code = 404)
          /\ (Starts(w, "get_consent") /\ th'[w].request_id \in DOMAIN REQUEST_DB)
                => th'[w].pc # "done"
          /\ (/\ StepOf(w)
              /\ th[w].op = "get_consent"
              /\ th[w].pc # "done"
              /\ th[w].request_id \in DOMAIN REQUEST_DB)
                => LET t == th[w].request_id IN
                   /\ th'[w].pc = "done"
                   /\ th'[w].resp.code = 200
                   /\ REQUEST_DB[t] \in {"completed", "denied"}
                        => th'[w].resp.body = "This location request has already been completed."
                   /\ REQUEST_DB[t] = "pending"
                        => th'[w].resp.body = "consent page " \o t
                   /\ th'[w].resp.body = "consent page " \o t
                        => REQUEST_DB[t] = "pending"]_vars

\* C11 witness: a consent call on a denied identifier has been answered with
\* the notice.
C11_Witness ==
    \E w \in Workers :
        /\ th[w].op = "get_consent" /\ th[w].pc = "done"
        /\ th[w].request_id \in DOMAIN REQUEST_DB
        /\ REQUEST_DB[th[w].request_id] = "denied"
        /\ th[w].resp = [code |-> 200,
                         body |-> "This location request has already been completed."]

\* C12: an identifier that is in the Status Store stays in it in every later
\* state.
C12_NeverDeleted ==
    [][\A t \in DOMAIN REQUEST_DB : t \in DOMAIN REQUEST_DB']_vars

\* C12 amended: an entry leaves the Status Store only in the step in which the
\* request_location call that inserted it answers 500 after a failed delivery;
\* the entry of a call that returned 202 is in the Status Store ever after.
C12_DeletedOnlyByRollback ==
    /\ [](\A t \in Tokens : hist[t].created => t \in DOMAIN REQUEST_DB)
    /\ [][\A t \in DOMAIN REQUEST_DB :
            t \notin DOMAIN REQUEST_DB'
                => \E w \in Workers :
                      /\ th[w].op = "request_location"
                      /\ th[w].pc = "req_send"
                      /\ th[w].request_id = t
                      /\ th'[w].pc = "done"
                      /\ th'[w].resp.code = 500]_vars

\* C12 witness: one identifier has been rolled back and another, whose call
\* returned 202 and which has been submitted since, is still in the store.
C12_Witness ==
    \E t, u \in Tokens :
        /\ hist[t].rolledBack
        /\ t \notin DOMAIN REQUEST_DB
        /\ hist[u].created
        /\ u \in DOMAIN REQUEST_DB
        /\ REQUEST_DB[u] # "pending"

C14_AcceptedIsStored ==
    [][\A w \in Workers :
          /\ (Starts(w, "request_location") /\ th'[w].pc = "req_send")
                => /\ th'[w].request_id \in Tokens
                   /\ th'[w].request_id \notin used
                   /\ th'[w].request_id \notin DOMAIN REQUEST_DB
                   /\ \A v \in Workers : th[v].request_id # th'[w].request_id
          /\ (StepOf(w) /\ th[w].pc = "req_send" /\ th'[w].resp.code = 202)
                => LET t == th'[w].request_id IN
                   /\ th'[w].pc = "done"
                   /\ th'[w].resp.body = "pending"
                   /\ t = th[w].request_id
                   /\ t \in DOMAIN REQUEST_DB'
                   /\ (REQUEST_DB'[t] = "pending" \/ hist[t].trans > 0)]_vars

\* C14 witness: a call has returned 202 for an identifier that a submit,
\* served by the other worker, has moved to completed.
C14_Witness ==
    \E w \in Workers :
        /\ th[w].op = "request_location"
        /\ th[w].resp = [code |-> 202, body |-> "pending"]
        /\ REQUEST_DB[th[w].request_id] = "completed"

\* C15: a get_location_xml call that finds the identifier's file goes on to
\* read it, whatever the Status Store holds, and answers 200 with exactly the
\* content of the file.
C15_StoredDocumentServed ==
    [][\A w \in Workers :
          /\ (Starts(w, "get_location_xml") /\ th'[w].request_id \in DOMAIN files)
                => th'[w].pc = "get_read"
          /\ (StepOf(w) /\ th[w].pc = "get_read")
                => /\ th'[w].pc = "done"
                   /\ th'[w].resp = [code |-> 200, body |-> files[th[w].request_id]]]_vars

\* C15 amended: as C15, except that the call answers 500 "Error reading result
\* file" when reading the file raises.
C15_StoredDocumentServedOrReadError ==
    [][\A w \in Workers :
          /\ (Starts(w, "get_location_xml") /\ th'[w].request_id \in DOMAIN files)
                => th'[w].pc = "get_read"
          /\ (StepOf(w) /\ th[w].pc = "get_read")
                => /\ th'[w].pc = "done"
                   /\ \/ th'[w].resp = [code |-> 200, body |-> files[th[w].request_id]]
                      \/ th'[w].resp = [code |-> 500, body |-> "Error reading result file"]]_vars

\* C15 witness: a stored document has been served with 200 for an identifier
\* that has no entry in the Status Store.
C15_Witness ==
    \E w \in Workers :
        /\ th[w].op = "get_location_xml"
        /\ th[w].pc = "done"
        /\ th[w].request_id \in DOMAIN files
        /\ th[w].request_id \notin DOMAIN REQUEST_DB
        /\ th[w].resp.code = 200
        /\ th[w].resp.body = files[th[w].request_id]
        /\ Contains(th[w].resp.body, "<Status>completed</Status>")

\* C16: the document get_location_xml builds at line 217 has Status pending
\* and a Message element, the one it builds at line 219 has Status error and a
\* Message element, and neither has a Coordinates element.
C16_SynthesizedDocuments ==
    \A w \in Workers :
        (th[w].op = "get_location_xml" /\ th[w].pc = "done" /\ th[w].line \in {217, 219})
        => /\ Contains(th[w].resp.body,
                       Element("Status", IF th[w].line = 217 THEN "pending" ELSE "error"))
           /\ Contains(th[w].resp.body, "<Message>")
           /\ ~Contains(th[w].resp.body, "<Coordinates>")

\* C17: when no submit handler is at work on an identifier that is in the
\* Status Store and whose file holds a document (no write to it having
\* failed), the Status element of the document is the status of the Status
\* Store.
C17_DocumentMatchesStatus ==
    \A t \in DOMAIN files \cap DOMAIN REQUEST_DB :
        (Quiet(t) /\ files[t] # "" /\ ~H(t).ioFailed)
            => Contains(files[t], Element("Status", REQUEST_DB[t]))

\* C18: every identifier whose file holds a document is in the Status Store
\* with status completed or denied.
C18_DocumentHasEntry ==
    \A t \in DOMAIN files :
        files[t] # ""
            => /\ t \in DOMAIN REQUEST_DB
               /\ REQUEST_DB[t] \in {"completed", "denied"}

\* C19: a get_location_xml call that reads the file of an identifier to which
\* a single submit handler writes answers with the complete document that
\* handler built, never with an empty or partial one.
C19_NoPartialRead ==
    [][\A w \in Workers :
          (/\ StepOf(w)
           /\ th[w].pc = "get_read"
           /\ th'[w].resp.code = 200
           /\ H(th[w].request_id).opens = 1)
          => th'[w].resp.body \in SubmittedDocuments(th[w].request_id)]_vars

\* C20: no step of a consent or get-location handler changes the Status Store
\* or the files.
C20_ReadOnly ==
    [][\A w \in Workers :
          (StepOf(w) /\ th'[w].op \in {"get_consent", "get_location_xml"})
          => (REQUEST_DB' = REQUEST_DB /\ files' = files)]_vars

\* C20 witness: a stored document has been served, and the Status Store entry
\* and the file are as the submit left them.
C20_Witness ==
    \E w \in Workers :
        /\ th[w].op = "get_location_xml"
        /\ th[w].pc = "done"
        /\ th[w].resp.code = 200
        /\ th[w].request_id \in DOMAIN files
        /\ th[w].request_id \in DOMAIN REQUEST_DB
        /\ files[th[w].request_id] \in SubmittedDocuments(th[w].request_id)
        /\ Contains(files[th[w].request_id],
                    Element("Status", REQUEST_DB[th[w].request_id]))

====
